---- MODULE Spec2Model ----
(***************************************************************************)
(* Model of the news digest pipeline (src/src/agent.py), its scorer        *)
(* (src/src/tools/ollama_tools.py), its sender (src/src/sender.py), the    *)
(* feed fetcher (src/src/mcp_rss_server.py) and the command line entry     *)
(* point (src/run_digest.py).                                              *)
(*                                                                         *)
(* Scores are kept in tenths: 75 stands for 7.5, 100 for 10.0.             *)
(* Titles are sequences of one-character strings.                          *)
(* Python's None is the string "None" for the error marker and 0 for       *)
(* max_articles (the code tests it with `if max_articles:`).               *)
(***************************************************************************)
EXTENDS Integers, Sequences, FiniteSets, TLC

\* ------------------------------------------------------------------ bounds

\* longest list of raw articles the fetch tool returns
MaxFetched == 3

\* ------------------------------------------------------- program constants

\* dedupe_articles(articles, threshold=85)
DedupeThreshold == 85

\* min(score, 10) in parse_score_response, in tenths
ScoreCap == 100

\* ----------------------------------------------------------------- helpers

Max2(a, b) == IF a >= b THEN a ELSE b

Min2(a, b) == IF a <= b THEN a ELSE b

\* str.lower() on one character
LowerChar(c) ==
    CASE c = "A" -> "a"
      [] c = "B" -> "b"
      [] c = "C" -> "c"
      [] c = "D" -> "d"
      [] OTHER -> c

\* str.lower()
Lower(s) == [k \in 1..Len(s) |-> LowerChar(s[k])]

\* length of the longest common subsequence, the core of rapidfuzz's Indel
\* similarity
RECURSIVE LCS(_, _)
LCS(s, t) ==
    IF s = <<>> \/ t = <<>> THEN 0
    ELSE IF Head(s) = Head(t) THEN 1 + LCS(Tail(s), Tail(t))
    ELSE Max2(LCS(Tail(s), t), LCS(s, Tail(t)))

\* fuzz.ratio(s1, s2): 100 * 2*LCS / (len1 + len2), rounded down (the
\* comparison with the integer threshold is not affected by the rounding)
ratio(s1, s2) ==
    IF Len(s1) + Len(s2) = 0 THEN 100
    ELSE (200 * LCS(s1, s2)) \div (Len(s1) + Len(s2))

\* the test of dedupe_articles: fuzz.ratio(title.lower(), seen.lower()) >= threshold
is_similar(t1, t2) == ratio(Lower(t1), Lower(t2)) >= DedupeThreshold

\* dedupe_loop comparing a title with the last accepted title only
RECURSIVE dedupe_loop_last_only(_, _, _)
dedupe_loop_last_only(articles, i, kept) ==
    IF i > Len(articles) THEN kept
    ELSE LET title == articles[i].title
             is_dupe == /\ kept # <<>>
                        /\ is_similar(title, articles[kept[Len(kept)]].title)
         IN  dedupe_loop_last_only(articles, i + 1,
                                   IF is_dupe THEN kept ELSE Append(kept, i))

\* dedupe_loop comparing a title with every title seen before it, accepted
\* or not
RECURSIVE dedupe_loop_all_seen(_, _, _)
dedupe_loop_all_seen(articles, i, kept) ==
    IF i > Len(articles) THEN kept
    ELSE LET title == articles[i].title
             is_dupe == \E k \in 1..(i - 1) :
                            is_similar(title, articles[k].title)
         IN  dedupe_loop_all_seen(articles, i + 1,
                                  IF is_dupe THEN kept ELSE Append(kept, i))

\* the loop of dedupe_articles over articles[i..]; kept holds the positions of
\* the articles appended to `unique` so far (seen_titles are their titles)
RECURSIVE dedupe_loop(_, _, _)
dedupe_loop(articles, i, kept) ==
    IF i > Len(articles) THEN kept
    ELSE LET title == articles[i].title
             is_dupe == \E k \in 1..Len(kept) :
                            is_similar(title, articles[kept[k]].title)
         IN  dedupe_loop(articles, i + 1,
                         IF is_dupe THEN kept ELSE Append(kept, i))

\* positions (in input order) of the articles dedupe_articles returns
dedupe_kept(articles) == dedupe_loop(articles, 1, <<>>)

\* dedupe_articles(articles)
dedupe_articles(articles) ==
    LET kept == dedupe_kept(articles)
    IN  [k \in 1..Len(kept) |-> articles[kept[k]]]

\* articles[:max_articles] when max_articles is truthy
limit_articles(articles, n) ==
    IF n # 0 THEN SubSeq(articles, 1, Min2(n, Len(articles))) ELSE articles

\* ------------------------------------------------------------ model replies

\* What a model reply text holds, as far as parse_score_response reads it:
\*   call      "ok", or "fail" when llm.invoke raises
\*   obj       "none": re.search(r"\{[^}]+\}") finds nothing;
\*             "malformed": json.loads raises JSONDecodeError; "valid"
\*   objScore  the "score" member: "absent", "num" (objVal, in tenths),
\*             "bad" (a string float() rejects: ValueError),
\*             "null" (None or a list: float() raises TypeError)
\*   objSum    the "summary" member as str(), "" when absent
\*   txtScore  "num" (txtVal >= 0) when score[:\s]+(\d+(?:\.\d+)?) matches
\*   txtSum    group 1 of summary[:\s]+(.+), stripped; "" when no match
ObjScoreKinds == {"absent", "num", "bad", "null"}

MkReply(call, obj, objScore, objVal, objSum, txtScore, txtVal, txtSum) ==
    [call |-> call, obj |-> obj, objScore |-> objScore, objVal |-> objVal,
     objSum |-> objSum, txtScore |-> txtScore, txtVal |-> txtVal,
     txtSum |-> txtSum]

\* replies the model gives in the runs explored
R90 == MkReply("ok", "valid", "num", 90, "s", "none", 0, "")

R40 == MkReply("ok", "valid", "num", 40, "s", "none", 0, "")

R75 == MkReply("ok", "valid", "num", 75, "s", "none", 0, "")

\* {"score": -3, ...}
RNeg == MkReply("ok", "valid", "num", -30, "s", "none", 0, "")

\* non-JSON gibberish with no score and no summary token
RGibberish == MkReply("ok", "none", "absent", 0, "", "none", 0, "")

\* free text "Summary: ..." with no score token
RSummaryOnly == MkReply("ok", "none", "absent", 0, "", "none", 0, "s")

\* llm.invoke raises
RFail == MkReply("fail", "none", "absent", 0, "", "none", 0, "")

ReplyPool == {R90, R40, R75, RNeg, RGibberish, RSummaryOnly, RFail}

\* the fallback of parse_score_response: regex extraction from plain text
parse_fallback(r) ==
    LET score == IF r.txtScore = "num" THEN r.txtVal ELSE 0
    IN  [raised |-> FALSE, score |-> Min2(score, ScoreCap), summary |-> r.txtSum]

\* parse_score_response(response_text); raised = TRUE when the TypeError of
\* float() leaves the function (only JSONDecodeError and ValueError are caught)
parse_score_response(r) ==
    IF r.obj = "valid"
    THEN CASE r.objScore = "num" ->
                [raised |-> FALSE, score |-> Min2(r.objVal, ScoreCap),
                 summary |-> r.objSum]
           [] r.objScore = "absent" ->
                [raised |-> FALSE, score |-> Min2(0, ScoreCap),
                 summary |-> r.objSum]
           [] r.objScore = "null" ->
                [raised |-> TRUE, score |-> 0, summary |-> ""]
           [] OTHER -> parse_fallback(r)
    ELSE parse_fallback(r)

\* score_and_summarize_article: the try block around llm.invoke and the parse
score_and_summarize_article(r) ==
    IF r.call = "fail" THEN [score |-> 0, summary |-> ""]
    ELSE LET p == parse_score_response(r)
         IN  IF p.raised THEN [score |-> 0, summary |-> ""]
             ELSE [score |-> p.score, summary |-> p.summary]

\* ----------------------------------------------------------------- articles

\* an article dict as Article.to_dict builds it (score 0.0, ai_summary "")
MkArticle(title, link, topic, source) ==
    [title |-> title, link |-> link, summary |-> "raw", source |-> source,
     topic |-> topic, score |-> 0, ai_summary |-> ""]

\* the articles the feeds hold in the runs explored; "abc", "ABCd" and "bcd"
\* are pairwise similar except "abc" and "bcd"
ArticlePool ==
    { MkArticle(<<"a", "b", "c">>, "l1", "ai", "feedA"),
      MkArticle(<<"A", "B", "C", "d">>, "l2", "tech", "feedB"),
      MkArticle(<<"b", "c", "d">>, "l3", "ai", "feedB"),
      MkArticle(<<"x", "y">>, "l4", "tech", "feedA") }

RECURSIVE SeqsUpTo(_, _)
SeqsUpTo(S, n) ==
    IF n = 0 THEN { <<>> }
    ELSE LET shorter == SeqsUpTo(S, n - 1)
         IN  shorter \cup { Append(q, x) : q \in shorter, x \in S }

\* ---------------------------------------------------------------- run state

VARIABLES
    pc,               \* position of the run in run_pipeline and the graph
    raw_articles,     \* DigestState
    scored_articles,
    digest_markdown,
    digest_html,
    min_score,
    max_articles,
    dry_run,
    error,
    stats,
    unique_idx,       \* score_node: positions in raw_articles dedupe kept
    articles,         \* score_node: the list being scored
    scored,           \* score_node: the articles that passed so far
    replies,          \* the model's reply to each article scored so far
    ollama,           \* outcome of check_ollama_available
    mail,             \* outcome of the delivery attempt of send_node
    send_digest_calls,\* calls of sender.send_digest
    smtp_attempts,    \* SMTP connections opened by send_gmail
    outbox,           \* documents the SMTP server accepted
    format_runs,      \* documents format_node produced
    f_pc,             \* position of call_tool("fetch_feeds") in the server
    rss_feeds,        \* config["rss_feeds"]: topics in order, each with its feed urls
    max_per_feed,     \* arguments["max_articles_per_feed"]
    freshness_hours,  \* arguments["freshness_hours"]
    now,              \* the server's clock, datetime.now(timezone.utc)
    ti,               \* position of the topic loop
    fi,               \* position of the feed loop
    ei,               \* position of the entry loop
    entries,          \* feed.entries[:max_articles] of the feed being read
    f_articles,       \* `articles` of fetch_single_feed
    all_articles,     \* `all_articles` of call_tool
    decisions,        \* per entry read: the entry, the clock at is_fresh, kept or not
    feed_log,         \* per feed opened: topic, url, failed or not
    held,             \* len(feed.entries) of the feed being read
    stages,           \* the stages of the run that began, in order
    previous_markdown,\* digest_markdown of the call of format_node before the last
    interests_file,   \* config/topics.yaml: "present", "missing" or "malformed"
    sources_file,     \* config/sources.yaml: "present" or "missing"
    exit_code         \* exit status of the process, -1 while it runs

state_vars == <<raw_articles, scored_articles, digest_markdown, digest_html,
                min_score, max_articles, dry_run, error, stats>>

score_vars == <<unique_idx, articles, scored, replies>>

env_vars == <<ollama, mail, send_digest_calls, smtp_attempts, outbox,
              format_runs>>

fetch_vars == <<f_pc, rss_feeds, max_per_feed, freshness_hours, now, ti, fi, ei,
                entries, f_articles, all_articles, decisions, feed_log,
                held>>

cli_vars == <<interests_file, sources_file, exit_code>>

vars == <<pc, state_vars, score_vars, env_vars, fetch_vars, cli_vars, stages,
          previous_markdown>>

\* the "" a document field holds before format_node runs
BlankDoc == [form |-> "str", kind |-> "blank", date |-> "", sections |-> <<>>]

MinScores == {0, 60}

\* 0 is None: score everything
MaxArticlesChoices == {0, 2}

Days == {"mon", "tue"}

\* the server is not part of the run explored
FetchOff ==
    /\ f_pc = "off"
    /\ rss_feeds = <<>>
    /\ max_per_feed = 0
    /\ freshness_hours = 0
    /\ now = 0
    /\ ti = 0
    /\ fi = 0
    /\ ei = 0
    /\ entries = <<>>
    /\ f_articles = <<>>
    /\ all_articles = <<>>
    /\ decisions = <<>>
    /\ feed_log = <<>>
    /\ held = 0

\* config/topics.yaml as load_user_interests finds it
InterestsFiles == {"present", "missing", "malformed"}

\* config/sources.yaml as load_sources_config finds it
SourcesFiles == {"present", "missing"}

\* the process at the call of run_pipeline, with the configuration files in
\* any condition: initial_state of run_pipeline
InitMain ==
    /\ FetchOff
    /\ interests_file \in InterestsFiles
    /\ sources_file \in SourcesFiles
    /\ exit_code = -1
    /\ stages = <<>>
    /\ previous_markdown = BlankDoc
    /\ pc = "start"
    /\ raw_articles = <<>>
    /\ scored_articles = <<>>
    /\ digest_markdown = BlankDoc
    /\ digest_html = BlankDoc
    /\ min_score \in MinScores
    /\ max_articles \in MaxArticlesChoices
    /\ dry_run \in BOOLEAN
    /\ error = "None"
    /\ stats = <<>>
    /\ unique_idx = <<>>
    /\ articles = <<>>
    /\ scored = <<>>
    /\ replies = <<>>
    /\ ollama = "unchecked"
    /\ mail = "none"
    /\ send_digest_calls = 0
    /\ smtp_attempts = 0
    /\ outbox = <<>>
    /\ format_runs = 0

\* run_pipeline called with both configuration files in place
Init ==
    /\ InitMain
    /\ interests_file = "present"
    /\ sources_file = "present"

\* a node's partial update merged into the run state: every key the node
\* returns replaces the state's value, every other key is kept
ApplyUpdate(u) ==
    /\ raw_articles' =
         IF "raw_articles" \in DOMAIN u THEN u.raw_articles ELSE raw_articles
    /\ scored_articles' =
         IF "scored_articles" \in DOMAIN u THEN u.scored_articles
         ELSE scored_articles
    /\ digest_markdown' =
         IF "digest_markdown" \in DOMAIN u THEN u.digest_markdown
         ELSE digest_markdown
    /\ digest_html' =
         IF "digest_html" \in DOMAIN u THEN u.digest_html ELSE digest_html
    /\ error' = IF "error" \in DOMAIN u THEN u.error ELSE error
    /\ stats' = IF "stats" \in DOMAIN u THEN u.stats ELSE stats
    /\ UNCHANGED <<min_score, max_articles, dry_run>>

\* {**stats, key: value}
with_stat(st, key, value) == (key :> value) @@ st

\* ------------------------------------------------------------------- fetch

\* mcp_client.connect(): the server process starts, or the exception leaves
\* run_pipeline
Connect ==
    /\ pc = "start"
    /\ \E ok \in BOOLEAN : pc' = IF ok THEN "fetch" ELSE "raised"
    /\ UNCHANGED <<fetch_vars, state_vars, score_vars, env_vars, cli_vars,
                   stages, previous_markdown>>

\* what fetch_node returns: fetched is the list of mcp_client.fetch_feeds(),
\* failed = TRUE when the call raises
fetch_node(failed, fetched) ==
    IF failed THEN [error |-> "Fetch failed"]
    ELSE [raw_articles |-> fetched,
          stats |-> with_stat(stats, "fetched", Len(fetched))]

\* run_pipeline going on to the graph whatever the fetch returned
after_fetch_no_return(err) == "score"

\* run_pipeline after initial_state.update(fetch_result): `return
\* initial_state` when the error marker is set, else graph.invoke
after_fetch(err) == IF err # "None" THEN "done" ELSE "score"

\* run_pipeline: fetch_node, initial_state.update, the early return on error.
\* Without config/sources.yaml call_tool raises in load_sources_config, the
\* tool result is no JSON and fetch_feeds raises
FetchNode ==
    /\ pc = "fetch"
    /\ \E failed \in BOOLEAN, fetched \in SeqsUpTo(ArticlePool, MaxFetched) :
         /\ failed => fetched = <<>>
         /\ sources_file = "missing" => failed
         /\ ApplyUpdate(fetch_node(failed, fetched))
         /\ pc' = after_fetch(error')
    /\ stages' = Append(stages, "fetch")
    /\ UNCHANGED <<fetch_vars, score_vars, env_vars, cli_vars,
                   previous_markdown>>

\* ------------------------------------------------------------------- score

\* outcomes of check_ollama_available: "unreachable" (requests raises
\* ConnectionError), "bad_status" (status != 200), "missing" (model not in
\* the tag list) raise ConnectionError; "timeout" is any other exception of
\* requests.get/response.json, which score_node does not catch
OllamaOutcomes == {"ok", "unreachable", "bad_status", "missing", "timeout"}

OllamaErrors == {"unreachable", "bad_status", "missing"}

\* str(e) of the ConnectionError
ollama_message(o) ==
    CASE o = "unreachable" -> "Cannot connect to Ollama"
      [] o = "bad_status" -> "Ollama returned status"
      [] OTHER -> "Model not found"

\* the edges of build_graph: score -> format -> send -> END, with the edge
\* out of score leading to send
graph_edge_skips_format(node) ==
    CASE node = "score" -> "send"
      [] node = "format" -> "send"
      [] OTHER -> "done"

\* the edges of build_graph: score -> format -> send -> END
graph_edge(node) ==
    CASE node = "score" -> "format"
      [] node = "format" -> "send"
      [] OTHER -> "done"

\* load_user_interests: the profile built from topics.yaml, the default
\* string when the file is not found, an exception (yaml.YAMLError) when it
\* cannot be parsed
load_user_interests(file) ==
    CASE file = "missing" -> "default"
      [] file = "malformed" -> "raises"
      [] OTHER -> "profile"

\* score_node up to the scoring loop: dedupe, limit, backend check, interest
\* profile. On a ConnectionError it returns {"error": ...} and the graph
\* moves on to the format node (build_graph has unconditional edges only)
ScoreBegin ==
    /\ pc = "score"
    /\ stages' = Append(stages, "score")
    /\ unique_idx' = dedupe_kept(raw_articles)
    /\ \E o \in OllamaOutcomes :
         /\ ollama' = o
         /\ CASE o = "ok" ->
                   /\ articles' = limit_articles(dedupe_articles(raw_articles),
                                                 max_articles)
                   /\ pc' = IF load_user_interests(interests_file) = "raises"
                            THEN "raised" ELSE "scoring"
                   /\ UNCHANGED state_vars
              [] o = "timeout" ->
                   /\ pc' = "raised"
                   /\ UNCHANGED <<articles, state_vars>>
              [] OTHER ->
                   /\ ApplyUpdate([error |-> ollama_message(o)])
                   /\ pc' = graph_edge("score")
                   /\ UNCHANGED articles
    /\ UNCHANGED <<fetch_vars, scored, replies, mail, send_digest_calls, smtp_attempts,
                   outbox, format_runs, cli_vars, previous_markdown>>

\* the filter of the scoring loop: if score >= min_score: scored.append
passes_filter(score, theta) == score >= theta

\* one iteration of the scoring loop of score_node
ScoreArticle ==
    /\ pc = "scoring"
    /\ Len(replies) < Len(articles)
    /\ \E r \in ReplyPool :
         LET i == Len(replies) + 1
             res == score_and_summarize_article(r)
             article == [articles[i] EXCEPT !.score = res.score,
                                            !.ai_summary = res.summary]
         IN  /\ articles' = [articles EXCEPT ![i] = article]
             /\ scored' = IF passes_filter(res.score, min_score)
                          THEN Append(scored, article) ELSE scored
             /\ replies' = Append(replies, r)
    /\ UNCHANGED <<fetch_vars, pc, state_vars, unique_idx, env_vars, cli_vars,
                   stages, previous_markdown>>

\* insert_desc placing an article before the articles of equal score, as a
\* sort that is not stable would
insert_desc_unstable(sorted, a) ==
    LET n == Cardinality({k \in 1..Len(sorted) : sorted[k].score > a.score})
    IN  SubSeq(sorted, 1, n) \o <<a>> \o SubSeq(sorted, n + 1, Len(sorted))

\* list.insert keeping the list sorted by descending score, after every
\* element whose score is not smaller
insert_desc(sorted, a) ==
    LET n == Cardinality({k \in 1..Len(sorted) : sorted[k].score >= a.score})
    IN  SubSeq(sorted, 1, n) \o <<a>> \o SubSeq(sorted, n + 1, Len(sorted))

\* scored.sort(key=score, reverse=True): a stable sort, equal scores keep
\* their order
RECURSIVE sort_by_score(_)
sort_by_score(list) ==
    IF list = <<>> THEN <<>>
    ELSE insert_desc(sort_by_score(SubSeq(list, 1, Len(list) - 1)),
                     list[Len(list)])

\* the return value of score_node after the loop
score_node(done, work) ==
    [scored_articles |-> sort_by_score(done),
     stats |-> with_stat(with_stat(stats, "after_dedupe", Len(work)),
                         "passed_filter", Len(done))]

\* the end of score_node: sort, statistics, return
ScoreEnd ==
    /\ pc = "scoring"
    /\ Len(replies) = Len(articles)
    /\ ApplyUpdate(score_node(scored, articles))
    /\ pc' = graph_edge("score")
    /\ UNCHANGED <<fetch_vars, score_vars, env_vars, cli_vars, stages,
                   previous_markdown>>

\* ------------------------------------------------------------------ format

\* topic.upper()
Upper(t) == IF t = "ai" THEN "AI" ELSE IF t = "tech" THEN "TECH" ELSE t

\* the keys of by_topic in insertion order: topics by first appearance
RECURSIVE topic_order(_)
topic_order(list) ==
    IF list = <<>> THEN <<>>
    ELSE LET before == topic_order(SubSeq(list, 1, Len(list) - 1))
             t == Upper(list[Len(list)].topic)
         IN  IF \E k \in 1..Len(before) : before[k] = t THEN before
             ELSE Append(before, t)

\* the three Markdown lines of one article
md_item(a) ==
    [title |-> a.title, link |-> a.link, source |-> a.source,
     score |-> a.score,
     summary |-> IF a.ai_summary # "" THEN a.ai_summary ELSE a.summary]

\* the articles of one topic, in list order
RECURSIVE md_items(_, _)
md_items(list, t) ==
    IF list = <<>> THEN <<>>
    ELSE LET rest == md_items(Tail(list), t)
         IN  IF Upper(Head(list).topic) = t THEN <<md_item(Head(list))>> \o rest
             ELSE rest

\* the Markdown document of a non-empty list, dated today
render_markdown(list, today) ==
    LET order == topic_order(list)
    IN  [form |-> "md", kind |-> "digest", date |-> today,
         sections |-> [k \in 1..Len(order) |->
                          [topic |-> order[k], items |-> md_items(list, order[k])]]]

\* _markdown_to_html: the same content, substituted and wrapped into a page
markdown_to_html(md) == [md EXCEPT !.form = "html_page"]

\* "# Daily News Digest\n\nNo relevant articles found today."
EmptyMarkdown ==
    [form |-> "md", kind |-> "no_articles_today", date |-> "", sections |-> <<>>]

\* "<h1>Daily News Digest</h1><p>No relevant articles found.</p>"
EmptyHtml ==
    [form |-> "html_fragment", kind |-> "no_articles", date |-> "",
     sections |-> <<>>]

\* the return value of format_node
format_node(list, today) ==
    IF list = <<>>
    THEN [digest_markdown |-> EmptyMarkdown, digest_html |-> EmptyHtml]
    ELSE [digest_markdown |-> render_markdown(list, today),
          digest_html |-> markdown_to_html(render_markdown(list, today))]

\* the format node of the graph; it does not read the error marker
FormatNode ==
    /\ pc = "format"
    /\ \E today \in Days : ApplyUpdate(format_node(scored_articles, today))
    /\ format_runs' = format_runs + 1
    /\ stages' = Append(stages, "format")
    /\ pc' = graph_edge("format")
    /\ UNCHANGED <<fetch_vars, score_vars, ollama, mail, send_digest_calls, smtp_attempts,
                   outbox, cli_vars, previous_markdown>>

\* -------------------------------------------------------------------- send

\* outcomes of the delivery attempt of a run that is no dry run:
\*   "import_error"  `from sender import send_digest` fails
\*   "no_config"     validate_config finds a variable missing
\*   "build_raises"  building the message raises before the SMTP try block
\*   "sent"          the SMTP server accepts the message
\*   "auth_rejected" SMTPAuthenticationError inside send_gmail
\*   "transport"     any other exception inside the SMTP try block
MailOutcomes == {"import_error", "no_config", "build_raises", "sent",
                 "auth_rejected", "transport"}

\* outcomes in which send_gmail opens the SMTP connection
SmtpOutcomes == {"sent", "auth_rejected", "transport"}

\* send_gmail past validate_config: True only when the message was sent
send_gmail(outcome) == outcome = "sent"

\* send_digest: False without configuration, else the result of send_gmail
send_digest(outcome) == IF outcome = "no_config" THEN FALSE ELSE send_gmail(outcome)

\* send_node clearing the rendered markup when delivery did not succeed
send_node_drops_digest(dry, outcome) ==
    IF dry THEN [stats |-> with_stat(stats, "email_sent", FALSE)]
    ELSE IF outcome = "sent"
         THEN [stats |-> with_stat(stats, "email_sent", TRUE)]
         ELSE [error |-> "Email failed", digest_html |-> BlankDoc]

\* send_node without the dry_run test
send_node_ignores_dry_run(dry, outcome) ==
    CASE outcome = "import_error" ->
           [stats |-> with_stat(stats, "email_sent", FALSE)]
      [] outcome = "build_raises" -> [error |-> "Email failed"]
      [] OTHER ->
           [stats |-> with_stat(stats, "email_sent", send_digest(outcome))]

\* the return value of send_node
send_node(dry, outcome) ==
    IF dry THEN [stats |-> with_stat(stats, "email_sent", FALSE)]
    ELSE CASE outcome = "import_error" ->
                [stats |-> with_stat(stats, "email_sent", FALSE)]
           [] outcome = "build_raises" -> [error |-> "Email failed"]
           [] OTHER ->
                [stats |-> with_stat(stats, "email_sent", send_digest(outcome))]

\* the send node of the graph; it does not read the error marker. In a dry
\* run no delivery is attempted, so no outcome is drawn (mail = "skipped")
SendNode ==
    /\ pc = "send"
    /\ \E outcome \in MailOutcomes :
         /\ mail' = IF dry_run THEN "skipped" ELSE outcome
         /\ dry_run => outcome = "sent"
         /\ ApplyUpdate(send_node(dry_run, outcome))
         /\ send_digest_calls' =
              IF ~dry_run /\ outcome # "import_error"
              THEN send_digest_calls + 1 ELSE send_digest_calls
         /\ smtp_attempts' =
              IF ~dry_run /\ outcome \in SmtpOutcomes
              THEN smtp_attempts + 1 ELSE smtp_attempts
         /\ outbox' =
              IF ~dry_run /\ outcome = "sent"
              THEN Append(outbox, digest_html) ELSE outbox
    /\ stages' = Append(stages, "send")
    /\ pc' = graph_edge("send")
    /\ UNCHANGED <<fetch_vars, score_vars, ollama, format_runs, cli_vars,
                   previous_markdown>>

\* ------------------------------------------------------------- feed server

\* longest list of entries a feed holds
MaxEntries == 2

\* the latest time the server's clock reaches, in hours; a call starts at 3
MaxClock == 4

\* a feed entry as feedparser gives it: published_parsed and updated_parsed
\* are "none" (absent or empty), "bad" (datetime() raises TypeError or
\* ValueError) or "ok" with the time in hours
MkEntry(pub, pubT, upd, updT) ==
    [pub |-> pub, pubT |-> pubT, upd |-> upd, updT |-> updT]

EntryPool ==
    { MkEntry("ok", 0, "none", 0),
      MkEntry("ok", 2, "none", 0),
      MkEntry("ok", 0, "ok", 3),
      MkEntry("bad", 0, "ok", 1),
      MkEntry("none", 0, "none", 0),
      MkEntry("bad", 0, "bad", 0) }

\* config["rss_feeds"] of the calls explored
FeedConfigs ==
    { <<>>,
      <<[topic |-> "ai", urls |-> <<"u1">>]>>,
      <<[topic |-> "ai", urls |-> <<"u1", "u2">>]>>,
      <<[topic |-> "ai", urls |-> <<>>], [topic |-> "tech", urls |-> <<"u3">>]>>,
      <<[topic |-> "ai", urls |-> <<"u1">>], [topic |-> "tech", urls |-> <<"u3">>]>> }

\* the run state of a pipeline that is not part of the call explored
PipelineOff ==
    /\ pc = "off"
    /\ raw_articles = <<>>
    /\ scored_articles = <<>>
    /\ digest_markdown = BlankDoc
    /\ digest_html = BlankDoc
    /\ min_score = 60
    /\ max_articles = 0
    /\ dry_run = FALSE
    /\ error = "None"
    /\ stats = <<>>
    /\ unique_idx = <<>>
    /\ articles = <<>>
    /\ scored = <<>>
    /\ replies = <<>>
    /\ ollama = "unchecked"
    /\ mail = "none"
    /\ send_digest_calls = 0
    /\ smtp_attempts = 0
    /\ outbox = <<>>
    /\ format_runs = 0
    /\ stages = <<>>
    /\ previous_markdown = BlankDoc
    /\ interests_file = "present"
    /\ sources_file = "present"
    /\ exit_code = -1

\* call_tool("fetch_feeds", arguments) after load_sources_config
InitFetch ==
    /\ PipelineOff
    /\ f_pc = "next_feed"
    /\ rss_feeds \in FeedConfigs
    /\ max_per_feed \in {1, 2}
    /\ freshness_hours \in {1, 2}
    /\ now = 3
    /\ ti = 1
    /\ fi = 1
    /\ ei = 0
    /\ entries = <<>>
    /\ f_articles = <<>>
    /\ all_articles = <<>>
    /\ decisions = <<>>
    /\ feed_log = <<>>
    /\ held = 0

pipeline_vars == <<pc, state_vars, score_vars, env_vars, cli_vars, stages,
                   previous_markdown>>

\* parse_published_date: published_parsed first, updated_parsed when that is
\* absent or unusable, else None (has = FALSE)
parse_published_date(e) ==
    IF e.pub = "ok" THEN [has |-> TRUE, t |-> e.pubT]
    ELSE IF e.upd = "ok" THEN [has |-> TRUE, t |-> e.updT]
    ELSE [has |-> FALSE, t |-> 0]

\* is_fresh with an exclusive boundary
is_fresh_strict(published, hours, clock) ==
    IF ~published.has THEN TRUE
    ELSE published.t > clock - hours

\* is_fresh(published, hours), with the clock read inside the call
is_fresh(published, hours, clock) ==
    IF ~published.has THEN TRUE
    ELSE published.t >= clock - hours

\* the server's clock advances while a call is being served
Tick ==
    /\ f_pc \in {"next_feed", "entries"}
    /\ now < MaxClock
    /\ now' = now + 1
    /\ UNCHANGED <<pipeline_vars, f_pc, rss_feeds, max_per_feed,
                   freshness_hours, ti, fi, ei, entries, f_articles,
                   all_articles, decisions,
                   feed_log, held>>

\* the topic loop of call_tool moves to the next topic
NextTopic ==
    /\ f_pc = "next_feed"
    /\ ti <= Len(rss_feeds)
    /\ fi > Len(rss_feeds[ti].urls)
    /\ ti' = ti + 1
    /\ fi' = 1
    /\ UNCHANGED <<pipeline_vars, f_pc, rss_feeds, max_per_feed,
                   freshness_hours, now, ei, entries, f_articles,
                   all_articles, decisions,
                   feed_log, held>>

\* feed.entries[:max_articles]
feed_entries(feed, n) == SubSeq(feed, 1, Min2(n, Len(feed)))

\* all_articles.extend(articles) placing the new articles first
extend_front(list, more) == more \o list

\* all_articles.extend(articles)
extend(list, more) == list \o more

\* FeedOpen ending the call at the first feed that cannot be read
FeedOpenAborting ==
    /\ f_pc = "next_feed"
    /\ ti <= Len(rss_feeds)
    /\ fi <= Len(rss_feeds[ti].urls)
    /\ \E failed \in BOOLEAN, feed \in SeqsUpTo(EntryPool, MaxEntries) :
         /\ failed => feed = <<>>
         /\ feed_log' = Append(feed_log,
                               [topic |-> rss_feeds[ti].topic,
                                source |-> rss_feeds[ti].urls[fi],
                                failed |-> failed])
         /\ held' = Len(feed)
         /\ IF failed
            THEN /\ f_pc' = "returned"
                 /\ UNCHANGED <<fi, ei, entries, all_articles>>
            ELSE /\ entries' = feed_entries(feed, max_per_feed)
                 /\ ei' = 1
                 /\ f_pc' = "entries"
                 /\ UNCHANGED <<fi, all_articles>>
    /\ f_articles' = <<>>
    /\ UNCHANGED <<pipeline_vars, rss_feeds, max_per_feed, freshness_hours,
                   now, ti, decisions>>

\* fetch_single_feed up to its entry loop: feedparser.parse(feed_url); when
\* it raises the function returns [], call_tool extends all_articles with it
\* and the feed loop goes on
FeedOpen ==
    /\ f_pc = "next_feed"
    /\ ti <= Len(rss_feeds)
    /\ fi <= Len(rss_feeds[ti].urls)
    /\ \E failed \in BOOLEAN, feed \in SeqsUpTo(EntryPool, MaxEntries) :
         /\ failed => feed = <<>>
         /\ feed_log' = Append(feed_log,
                               [topic |-> rss_feeds[ti].topic,
                                source |-> rss_feeds[ti].urls[fi],
                                failed |-> failed])
         /\ held' = Len(feed)
         /\ IF failed
            THEN /\ all_articles' = extend(all_articles, <<>>)
                 /\ fi' = fi + 1
                 /\ UNCHANGED <<f_pc, ei, entries>>
            ELSE /\ entries' = feed_entries(feed, max_per_feed)
                 /\ ei' = 1
                 /\ f_pc' = "entries"
                 /\ UNCHANGED <<fi, all_articles>>
    /\ f_articles' = <<>>
    /\ UNCHANGED <<pipeline_vars, rss_feeds, max_per_feed, freshness_hours,
                   now, ti, decisions>>

\* the Article built from entry number k of the feed being read
make_article(k, published) ==
    [topic |-> rss_feeds[ti].topic, source |-> rss_feeds[ti].urls[fi],
     entry |-> k, published |-> published]

\* one iteration of the entry loop of fetch_single_feed
FetchEntry ==
    /\ f_pc = "entries"
    /\ ei <= Len(entries)
    /\ LET published == parse_published_date(entries[ei])
           fresh == is_fresh(published, freshness_hours, now)
       IN  /\ f_articles' = IF fresh
                            THEN Append(f_articles, make_article(ei, published))
                            ELSE f_articles
           /\ decisions' = Append(decisions,
                                  [entry |-> entries[ei], clock |-> now,
                                   topic |-> rss_feeds[ti].topic,
                                   source |-> rss_feeds[ti].urls[fi],
                                   index |-> ei, kept |-> fresh])
    /\ ei' = ei + 1
    /\ UNCHANGED <<pipeline_vars, f_pc, rss_feeds, max_per_feed,
                   freshness_hours, now, ti, fi, entries, all_articles,
                   feed_log, held>>

\* fetch_single_feed returns and call_tool extends all_articles
FeedClose ==
    /\ f_pc = "entries"
    /\ ei > Len(entries)
    /\ all_articles' = extend(all_articles, f_articles)
    /\ f_articles' = <<>>
    /\ entries' = <<>>
    /\ ei' = 0
    /\ fi' = fi + 1
    /\ f_pc' = "next_feed"
    /\ held' = 0
    /\ UNCHANGED <<pipeline_vars, rss_feeds, max_per_feed, freshness_hours,
                   now, ti, decisions, feed_log>>

\* call_tool returns the articles as JSON
FetchReturn ==
    /\ f_pc = "next_feed"
    /\ ti > Len(rss_feeds)
    /\ f_pc' = "returned"
    /\ UNCHANGED <<pipeline_vars, rss_feeds, max_per_feed, freshness_hours,
                   now, ti, fi, ei, entries, f_articles, all_articles,
                   decisions, feed_log, held>>

NextFetch ==
    \/ Tick
    \/ NextTopic
    \/ FeedOpen
    \/ FeedClose
    \/ FetchEntry
    \/ FetchReturn

SpecFetch == InitFetch /\ [][NextFetch]_vars

\* -------------------------------------------------------------- the system

Next ==
    \/ Connect
    \/ FetchNode
    \/ ScoreBegin
    \/ ScoreArticle
    \/ ScoreEnd
    \/ FormatNode
    \/ SendNode

Spec == Init /\ [][Next]_vars

\* ----------------------------------------------------------------- the CLI

\* the exit status of run_digest.main without --output: how run_pipeline
\* ended ("done", "raised", "interrupted") and result["error"]
exit_status(how, err) ==
    CASE how = "interrupted" -> 130
      [] how = "raised" -> 1
      [] err # "None" -> 1
      [] OTHER -> 0

\* KeyboardInterrupt while asyncio.run(run_pipeline(...)) is running
Interrupt ==
    /\ pc \in {"start", "fetch", "score", "scoring", "format", "send"}
    /\ exit_code = -1
    /\ pc' = "interrupted"
    /\ UNCHANGED <<state_vars, score_vars, env_vars, fetch_vars, cli_vars,
                   stages, previous_markdown>>

\* main after asyncio.run: sys.exit(130), sys.exit(1), or the statistics
\* are logged and the process ends with status 0
Exit ==
    /\ pc \in {"done", "raised", "interrupted"}
    /\ exit_code = -1
    /\ exit_code' = exit_status(pc, error)
    /\ UNCHANGED <<pc, state_vars, score_vars, env_vars, fetch_vars,
                   interests_file, sources_file, stages, previous_markdown>>

NextMain ==
    \/ Next
    \/ Interrupt
    \/ Exit

SpecMain == InitMain /\ [][NextMain]_vars

\* ---------------------------------------------------- format_node repeated

\* calls of format_node on one list
MaxRenders == 2

\* format_node about to be called on any list of the articles
InitRender ==
    /\ FetchOff
    /\ pc = "format"
    /\ raw_articles = <<>>
    /\ scored_articles \in SeqsUpTo(ArticlePool, MaxFetched)
    /\ digest_markdown = BlankDoc
    /\ digest_html = BlankDoc
    /\ min_score = 0
    /\ max_articles = 0
    /\ dry_run = TRUE
    /\ error = "None"
    /\ stats = <<>>
    /\ unique_idx = <<>>
    /\ articles = <<>>
    /\ scored = <<>>
    /\ replies = <<>>
    /\ ollama = "unchecked"
    /\ mail = "none"
    /\ send_digest_calls = 0
    /\ smtp_attempts = 0
    /\ outbox = <<>>
    /\ format_runs = 0
    /\ stages = <<>>
    /\ previous_markdown = BlankDoc
    /\ interests_file = "present"
    /\ sources_file = "present"
    /\ exit_code = -1

\* format_node is called once more on the state it returned; the list is
\* the same, the document of the earlier call is kept for comparison
FormatAgain ==
    /\ pc = "send"
    /\ format_runs < MaxRenders
    /\ previous_markdown' = digest_markdown
    /\ pc' = "format"
    /\ UNCHANGED <<state_vars, score_vars, env_vars, fetch_vars, cli_vars,
                   stages>>

NextRender ==
    \/ FormatNode
    \/ FormatAgain

SpecRender == InitRender /\ [][NextRender]_vars

\* score_node entered with any list the fetch can return, for the claims
\* about dedupe_articles alone
InitDedupe ==
    /\ FetchOff
    /\ pc = "score"
    /\ raw_articles \in SeqsUpTo(ArticlePool, MaxFetched)
    /\ scored_articles = <<>>
    /\ digest_markdown = BlankDoc
    /\ digest_html = BlankDoc
    /\ min_score = 60
    /\ max_articles \in MaxArticlesChoices
    /\ dry_run = FALSE
    /\ error = "None"
    /\ stats = with_stat(<<>>, "fetched", Len(raw_articles))
    /\ unique_idx = <<>>
    /\ articles = <<>>
    /\ scored = <<>>
    /\ replies = <<>>
    /\ ollama = "unchecked"
    /\ mail = "none"
    /\ send_digest_calls = 0
    /\ smtp_attempts = 0
    /\ outbox = <<>>
    /\ format_runs = 0
    /\ stages = <<"fetch">>
    /\ previous_markdown = BlankDoc
    /\ interests_file = "present"
    /\ sources_file = "present"
    /\ exit_code = -1

SpecDedupe == InitDedupe /\ [][ScoreBegin]_vars

\* ------------------------------------------------------------------ claims

\* the run state after the graph's last node, or after the early return
Finished == pc = "done"

\* C1: once the error marker is set no later stage does its work: no document
\* is rendered, no delivery is attempted and the rest of the run state stays
\* as it was.
C1_ErrorStopsLaterStages ==
    [][error # "None" =>
          /\ format_runs' = format_runs
          /\ send_digest_calls' = send_digest_calls
          /\ smtp_attempts' = smtp_attempts
          /\ <<raw_articles, scored_articles, digest_markdown, digest_html,
               stats>>' =
             <<raw_articles, scored_articles, digest_markdown, digest_html,
               stats>>]_vars

\* C2: with the backend unreachable or the model missing, the finished run
\* carries an error message and the email transport was never invoked.
C2_BackendDownNothingSent ==
    (Finished /\ ollama \in OllamaErrors) =>
        (error # "None" /\ smtp_attempts = 0 /\ outbox = <<>>)

\* C3: a delivery failure inside send_gmail of a run that is no dry run ends
\* with an error message and email_sent = False.
C3_DeliveryFailureIsRunError ==
    (Finished /\ mail \in {"auth_rejected", "transport"}) =>
        /\ error # "None"
        /\ "email_sent" \in DOMAIN stats
        /\ stats["email_sent"] = FALSE

\* C4: whatever the outcome of the send node, it leaves digest_markdown,
\* digest_html and scored_articles as they were.
C4_SendKeepsDigest ==
    [][pc = "send" =>
          /\ digest_markdown' = digest_markdown
          /\ digest_html' = digest_html
          /\ scored_articles' = scored_articles]_vars

\* a digest of articles was rendered and the delivery attempt raised
C4_Witness ==
    /\ Finished
    /\ mail = "build_raises"
    /\ error = "Email failed"
    /\ digest_markdown.kind = "digest"
    /\ digest_html.form = "html_page"

\* C5: in a dry run send_digest is never called, no SMTP connection is
\* opened, and once the send node ran email_sent is False.
C5_DryRunNeverSends ==
    dry_run =>
        /\ send_digest_calls = 0
        /\ smtp_attempts = 0
        /\ outbox = <<>>
        /\ mail # "none" =>
             ("email_sent" \in DOMAIN stats /\ stats["email_sent"] = FALSE)

\* a dry run that rendered a digest of articles went through the send node
C5_Witness ==
    /\ Finished
    /\ dry_run
    /\ mail = "skipped"
    /\ digest_markdown.kind = "digest"

\* the scoring stage returned its result
Scored == ollama = "ok" /\ pc \in {"format", "send", "done"}

\* the entries of list with the given score, in list order
with_score(list, v) ==
    LET Test(a) == a.score = v IN SelectSeq(list, Test)

\* the entries of list with score >= theta, in list order
at_least(list, theta) ==
    LET Test(a) == a.score >= theta IN SelectSeq(list, Test)

\* C6: scored_articles holds exactly the scored articles with score >=
\* min_score, by descending score, equal scores in their input order; and
\* passed_filter counts them.
C6_FilterAndRank ==
    Scored =>
        LET passing == at_least(articles, min_score)
        IN  /\ Len(scored_articles) = Len(passing)
            /\ \A k \in 1..Len(scored_articles) :
                 scored_articles[k].score >= min_score
            /\ \A k, l \in 1..Len(scored_articles) :
                 k < l => scored_articles[k].score >= scored_articles[l].score
            /\ \A k \in 1..Len(passing) :
                 with_score(scored_articles, passing[k].score) =
                 with_score(passing, passing[k].score)
            /\ stats["passed_filter"] = Len(scored_articles)

\* scenario D: threshold 6.0, scores [9.0, 4.0, 7.5] give [9.0, 7.5]
C6_Witness ==
    /\ Scored
    /\ min_score = 60
    /\ [k \in 1..Len(articles) |-> articles[k].score] = <<90, 40, 75>>
    /\ [k \in 1..Len(scored_articles) |-> scored_articles[k].score] = <<90, 75>>
    /\ stats["passed_filter"] = 2

\* dedupe_articles ran on raw_articles
Deduped == ollama # "unchecked"

\* the article at position i of raw_articles is in the output of dedupe
InOutput(i) == \E k \in 1..Len(unique_idx) : unique_idx[k] = i

\* the output lists input positions in increasing order
OrderPreserved ==
    \A k, l \in 1..Len(unique_idx) : k < l => unique_idx[k] < unique_idx[l]

\* C7 as stated: of two similar articles the later one is not in the output
\* (only the first one can be), two dissimilar articles are both in the
\* output, and order is preserved.
C7_PairwiseDedupe ==
    Deduped =>
        /\ \A i, j \in 1..Len(raw_articles) :
             i < j =>
               IF is_similar(raw_articles[i].title, raw_articles[j].title)
               THEN ~InOutput(j)
               ELSE InOutput(i) /\ InOutput(j)
        /\ OrderPreserved

\* C7 as amended: of two similar articles at most one is in the output, never
\* the later one when the earlier one is; an article dissimilar to every
\* earlier article is in the output; order is preserved.
C7_FirstSeenWins ==
    Deduped =>
        /\ \A i, j \in 1..Len(raw_articles) :
             (i < j /\ is_similar(raw_articles[i].title, raw_articles[j].title))
               => ~(InOutput(i) /\ InOutput(j))
        /\ \A j \in 1..Len(raw_articles) :
             (\A i \in 1..(j - 1) :
                 ~is_similar(raw_articles[i].title, raw_articles[j].title))
               => InOutput(j)
        /\ \A k \in 1..Len(unique_idx) : unique_idx[k] \in 1..Len(raw_articles)
        /\ OrderPreserved

\* "abc", "ABCd", "bcd": the second is dropped as a duplicate of the first,
\* the third is similar to the second only and is kept
C7_Witness ==
    /\ Deduped
    /\ Len(raw_articles) = 3
    /\ is_similar(raw_articles[1].title, raw_articles[2].title)
    /\ is_similar(raw_articles[2].title, raw_articles[3].title)
    /\ ~is_similar(raw_articles[1].title, raw_articles[3].title)
    /\ unique_idx = <<1, 3>>

\* C8: every score stored on an article is in [0, 10].
C8_ScoreInRange ==
    \A k \in 1..Len(replies) :
        articles[k].score >= 0 /\ articles[k].score <= ScoreCap

\* neither the JSON object nor the text of the reply yields a score, or the
\* model call failed
NoScore(r) ==
    \/ r.call = "fail"
    \/ ~(r.obj = "valid" /\ r.objScore \in {"num", "absent"}) /\ r.txtScore # "num"

\* C9: an article whose reply yields no score gets (0.0, ""), the run's
\* error marker stays unset and the loop goes on; a threshold > 0 excludes
\* the article from scored_articles.
C9_NoScoreIsZeroAndEmpty ==
    \A k \in 1..Len(replies) :
        NoScore(replies[k]) =>
            /\ articles[k].score = 0
            /\ articles[k].ai_summary = ""
            /\ pc = "scoring" => error = "None"
            /\ (Scored /\ min_score > 0) =>
                 \A l \in 1..Len(scored_articles) :
                     scored_articles[l].title # articles[k].title

\* the entry carries a timestamp parse_published_date can use
HasTimestamp(e) == e.pub = "ok" \/ e.upd = "ok"

\* that timestamp: the published one, else the updated one
Timestamp(e) == IF e.pub = "ok" THEN e.pubT ELSE e.updT

\* the decisions that kept their entry, in order
KeptDecisions ==
    LET Test(d) == d.kept IN SelectSeq(decisions, Test)

\* C10: an entry with a timestamp older than now - freshness_hours is not in
\* the fetch result, one with a timestamp at or after it is, and an entry
\* without a usable timestamp is; the result holds exactly the kept entries.
C10_FreshnessFilter ==
    /\ \A k \in 1..Len(decisions) :
         LET d == decisions[k]
             cutoff == d.clock - freshness_hours
         IN  /\ (HasTimestamp(d.entry) /\ Timestamp(d.entry) < cutoff)
                  => ~d.kept
             /\ (HasTimestamp(d.entry) /\ Timestamp(d.entry) >= cutoff)
                  => d.kept
             /\ ~HasTimestamp(d.entry) => d.kept
    /\ f_pc = "returned" =>
         /\ Len(all_articles) = Len(KeptDecisions)
         /\ \A k \in 1..Len(all_articles) :
              /\ all_articles[k].topic = KeptDecisions[k].topic
              /\ all_articles[k].source = KeptDecisions[k].source
              /\ all_articles[k].entry = KeptDecisions[k].index

\* a call returned after reading an entry exactly at the cutoff (kept), an
\* older one (dropped) and one without a timestamp (kept)
C10_Witness ==
    /\ f_pc = "returned"
    /\ \E k \in 1..Len(decisions) :
         /\ HasTimestamp(decisions[k].entry)
         /\ Timestamp(decisions[k].entry) = decisions[k].clock - freshness_hours
         /\ decisions[k].kept
    /\ \E k \in 1..Len(decisions) :
         /\ HasTimestamp(decisions[k].entry)
         /\ Timestamp(decisions[k].entry) < decisions[k].clock - freshness_hours
         /\ ~decisions[k].kept
    /\ \E k \in 1..Len(decisions) :
         /\ ~HasTimestamp(decisions[k].entry)
         /\ decisions[k].kept
    /\ Len(all_articles) = 2

\* C11: two entries with the same timestamp, read at any two moments of one
\* call (in the same feed or in different feeds), get the same decision.
C11_OneCutoffPerRun ==
    \A k, l \in 1..Len(decisions) :
        ( /\ HasTimestamp(decisions[k].entry)
          /\ HasTimestamp(decisions[l].entry)
          /\ Timestamp(decisions[k].entry) = Timestamp(decisions[l].entry) )
          => decisions[k].kept = decisions[l].kept

\* the configured feeds, topic by topic, each topic's urls in order
RECURSIVE ConfiguredFeeds(_)
ConfiguredFeeds(cfg) ==
    IF cfg = <<>> THEN <<>>
    ELSE [k \in 1..Len(Head(cfg).urls) |->
            [topic |-> Head(cfg).topic, source |-> Head(cfg).urls[k]]]
         \o ConfiguredFeeds(Tail(cfg))

\* the records of list that belong to the feed s
FromSource(list, s) ==
    LET Test(a) == a.source = s IN SelectSeq(list, Test)

\* the articles in hand: returned by the feeds read so far, and collected
\* from the feed being read
Fetched == all_articles \o f_articles

\* what feed number k of the log yields on its own: its kept entries, as
\* articles
Contribution(k) ==
    LET ds == FromSource(KeptDecisions, feed_log[k].source)
    IN  [i \in 1..Len(ds) |->
            [topic |-> ds[i].topic, source |-> ds[i].source,
             entry |-> ds[i].index,
             published |-> parse_published_date(ds[i].entry)]]

\* C12: a feed that cannot be read contributes no article, the call goes on
\* to every other configured feed, each of which contributes its own kept
\* entries, and no run error is set.
C12_FeedFailureIsolated ==
    /\ error = "None"
    /\ f_pc \in {"next_feed", "entries", "returned"}
    /\ \A k \in 1..Len(feed_log) :
         feed_log[k].failed =>
           /\ FromSource(Fetched, feed_log[k].source) = <<>>
           /\ FromSource(decisions, feed_log[k].source) = <<>>
    /\ f_pc = "returned" =>
         /\ Len(feed_log) = Len(ConfiguredFeeds(rss_feeds))
         /\ \A k \in 1..Len(feed_log) :
              /\ feed_log[k].topic = ConfiguredFeeds(rss_feeds)[k].topic
              /\ feed_log[k].source = ConfiguredFeeds(rss_feeds)[k].source
              /\ FromSource(all_articles, feed_log[k].source) = Contribution(k)

\* a call returned in which the first feed failed and the second feed, read
\* after it, contributed an article
C12_Witness ==
    /\ f_pc = "returned"
    /\ Len(feed_log) = 2
    /\ feed_log[1].failed
    /\ ~feed_log[2].failed
    /\ FromSource(all_articles, feed_log[2].source) # <<>>

\* position of an article's feed among the configured feeds
FeedPos(a) ==
    CHOOSE k \in 1..Len(ConfiguredFeeds(rss_feeds)) :
        ConfiguredFeeds(rss_feeds)[k] = [topic |-> a.topic, source |-> a.source]

\* the decisions on the entries of the feed being read
HereDecisions == FromSource(decisions, rss_feeds[ti].urls[fi])

\* C13: the articles come in the order of the configured topics, within a
\* topic in the order of its feeds, within a feed in the order of its
\* entries; a feed gives at most max_per_feed articles, and while a feed is
\* read the entries looked at are the first min(max_per_feed, len) of the
\* list being iterated, in order.
C13_FetchOrder ==
    /\ \A i, j \in 1..Len(Fetched) :
         i < j =>
           \/ FeedPos(Fetched[i]) < FeedPos(Fetched[j])
           \/ /\ FeedPos(Fetched[i]) = FeedPos(Fetched[j])
              /\ Fetched[i].entry < Fetched[j].entry
    /\ \A i \in 1..Len(Fetched) :
         /\ Len(FromSource(Fetched, Fetched[i].source)) <= max_per_feed
         /\ Fetched[i].entry \in 1..max_per_feed
    /\ f_pc = "entries" =>
         /\ Len(entries) = Min2(max_per_feed, held)
         /\ Len(HereDecisions) = ei - 1
         /\ \A k \in 1..Len(HereDecisions) :
              /\ HereDecisions[k].index = k
              /\ HereDecisions[k].entry = entries[k]
         /\ \A i \in 1..Len(f_articles) :
              f_articles[i].published =
                parse_published_date(entries[f_articles[i].entry])

\* two topics of one feed each: the first feed gave an article, the second
\* holds two entries of which the cap of one lets only the first through,
\* and it gave an article
C13_Witness ==
    /\ f_pc = "entries"
    /\ max_per_feed = 1
    /\ Len(feed_log) = 2
    /\ Len(all_articles) = 1
    /\ all_articles[1].topic = "ai"
    /\ Len(f_articles) = 1
    /\ f_articles[1].topic = "tech"
    /\ held = 2

\* C14: whatever list format_node is given, the empty one included,
\* digest_html is _markdown_to_html applied to digest_markdown.
C14_HtmlFromMarkdown ==
    format_runs > 0 => digest_html = markdown_to_html(digest_markdown)

\* C15: two calls of format_node on the same list, at any two moments, give
\* the same digest_markdown.
C15_RenderIdempotent ==
    (format_runs >= 2 /\ pc = "send") => digest_markdown = previous_markdown

\* the keys of the statistics map
StatKeys == {"fetched", "after_dedupe", "passed_filter", "email_sent"}

\* C16: the record a run returns holds all four statistics, also when the
\* run failed in the fetch or the scoring stage.
C16_ResultRecordComplete ==
    Finished => StatKeys \subseteq DOMAIN stats

\* run_pipeline left by an exception, an error message in the result, the
\* backend unavailable, or the delivery failed
RunError ==
    \/ pc = "raised"
    \/ error # "None"
    \/ ollama \in OllamaErrors
    \/ mail \in {"auth_rejected", "transport", "build_raises"}

\* C17: the process exits with 130 after an interrupt, else with 1 after any
\* run error, else with 0.
C17_ExitCodes ==
    exit_code # -1 =>
        exit_code = IF pc = "interrupted" THEN 130
                    ELSE IF RunError THEN 1 ELSE 0

\* a configuration file is missing or cannot be parsed
ConfigBroken == interests_file # "present" \/ sources_file # "present"

\* C18: with a configuration file missing or malformed no stage does any
\* work (nothing is fetched, scored, rendered or sent) and the process does
\* not exit with 0.
C18_ConfigErrorsFatalAtStartup ==
    ConfigBroken =>
        /\ "fetched" \notin DOMAIN stats
        /\ replies = <<>>
        /\ format_runs = 0
        /\ send_digest_calls = 0
        /\ exit_code # 0

\* the fetch returned the empty list in a preview run
EmptyPreview ==
    /\ dry_run
    /\ "fetched" \in DOMAIN stats
    /\ raw_articles = <<>>

\* C19: a finished preview run whose fetch returned nothing holds the fixed
\* "no articles" document in both forms, skipped the delivery, has no error
\* and reports fetched = after_dedupe = passed_filter = 0, whatever the
\* backend check found.
C19_EmptyPreviewRun ==
    (Finished /\ EmptyPreview) =>
        /\ digest_markdown = EmptyMarkdown
        /\ digest_html = EmptyHtml
        /\ mail = "skipped"
        /\ send_digest_calls = 0
        /\ error = "None"
        /\ {"fetched", "after_dedupe", "passed_filter"} \subseteq DOMAIN stats
        /\ stats["fetched"] = 0
        /\ stats["after_dedupe"] = 0
        /\ stats["passed_filter"] = 0

\* the stages of a run in pipeline order
StageOrder == <<"fetch", "score", "format", "send">>

IsPrefix(p, q) == Len(p) <= Len(q) /\ p = SubSeq(q, 1, Len(p))

\* C20: the stages begin in pipeline order, each at most once; a stage
\* begins only when the one before it has returned; a finished run without
\* error went through all four and recorded email_sent.
C20_StagesInOrder ==
    /\ IsPrefix(stages, StageOrder)
    /\ pc = "fetch" => stages = <<>>
    /\ pc \in {"score", "scoring"} => Len(stages) <= 2 /\ format_runs = 0
    /\ pc = "format" =>
         /\ stages = <<"fetch", "score">>
         /\ Len(replies) = Len(articles)
         /\ format_runs = 0
    /\ pc = "send" =>
         /\ stages = <<"fetch", "score", "format">>
         /\ format_runs = 1
         /\ mail = "none"
    /\ format_runs <= 1
    /\ send_digest_calls <= 1
    /\ (Finished /\ error = "None") =>
         /\ stages = StageOrder
         /\ mail # "none"
         /\ "email_sent" \in DOMAIN stats

\* a run without error that scored two articles, rendered them and sent the
\* digest
C20_Witness ==
    /\ Finished
    /\ error = "None"
    /\ stages = StageOrder
    /\ Len(replies) = 2
    /\ digest_markdown.kind = "digest"
    /\ stats["email_sent"] = TRUE
    /\ outbox = <<digest_html>>

\* the articles of raw_articles before position j that dedupe accepted
AcceptedBefore(j) == {i \in 1..(j - 1) : InOutput(i)}

\* C21: the output of dedupe_articles is a subsequence of its input; an
\* article is in it exactly when its title is below the threshold against
\* the title of every article accepted before it. So the first article is
\* kept, no two articles of the output are similar, and every discarded
\* article is similar to an earlier kept one.
C21_KeptIffNewToAccepted ==
    Deduped =>
        /\ \A k \in 1..Len(unique_idx) : unique_idx[k] \in 1..Len(raw_articles)
        /\ \A k, l \in 1..Len(unique_idx) :
             k < l => unique_idx[k] < unique_idx[l]
        /\ \A j \in 1..Len(raw_articles) :
             InOutput(j) <=>
               \A i \in AcceptedBefore(j) :
                   ~is_similar(raw_articles[i].title, raw_articles[j].title)
        /\ raw_articles # <<>> => InOutput(1)
        /\ \A k, l \in 1..Len(unique_idx) :
             k # l => ~is_similar(raw_articles[unique_idx[k]].title,
                                  raw_articles[unique_idx[l]].title)
        /\ \A j \in 1..Len(raw_articles) :
             ~InOutput(j) =>
               \E i \in AcceptedBefore(j) :
                   is_similar(raw_articles[i].title, raw_articles[j].title)

\* three articles of which the second was discarded as similar to the first,
\* and the third accepted although it is similar to the discarded second
C21_Witness ==
    /\ Deduped
    /\ Len(raw_articles) = 3
    /\ InOutput(1)
    /\ ~InOutput(2)
    /\ InOutput(3)
    /\ is_similar(raw_articles[2].title, raw_articles[3].title)
    /\ AcceptedBefore(3) = {1}

\* C22: once the scoring stage returned, fetched is the number of raw
\* articles, after_dedupe the number of articles deduplication kept and
\* passed_filter the length of scored_articles, whatever max_articles is.
C22_StatsAreStageCounts ==
    Scored =>
        /\ stats["fetched"] = Len(raw_articles)
        /\ stats["after_dedupe"] = Len(unique_idx)
        /\ stats["passed_filter"] = Len(scored_articles)
        /\ stats["passed_filter"] <= stats["after_dedupe"]
        /\ stats["after_dedupe"] <= stats["fetched"]

\* C23: when fetch_node returns an error the run is over at once: the
\* backend is not checked, no article is scored, nothing is rendered or
\* sent, and the state returned holds the error message with raw_articles,
\* scored_articles, digest_markdown and digest_html empty.
C23_FetchFailureReturnsAtOnce ==
    error = "Fetch failed" =>
        /\ pc = "done"
        /\ stages = <<"fetch">>
        /\ ollama = "unchecked"
        /\ replies = <<>>
        /\ format_runs = 0
        /\ mail = "none"
        /\ send_digest_calls = 0
        /\ smtp_attempts = 0
        /\ outbox = <<>>
        /\ raw_articles = <<>>
        /\ scored_articles = <<>>
        /\ digest_markdown = BlankDoc
        /\ digest_html = BlankDoc

\* a run of the sending kind that ended in the fetch stage
C23_Witness ==
    /\ Finished
    /\ error = "Fetch failed"
    /\ ~dry_run
    /\ stages = <<"fetch">>
    /\ stats = <<>>

====
